---- MODULE Spec2Model ----
(***************************************************************************)
(* A model of the citation graph engine of the_code_balotta.py: ingestion  *)
(* of citation records into a directed graph, the analytics over it, the   *)
(* wildcard search and comparison filter, and the date arithmetic that     *)
(* derives a cited document's creation date.                               *)
(*                                                                         *)
(* Python strings are sequences of one-character strings, so that slicing, *)
(* splitting, case folding, escaping and lexicographic comparison are      *)
(* computed as the code computes them.                                     *)
(***************************************************************************)
EXTENDS Integers, Sequences, FiniteSets, TLC

VARIABLES data, log, phase, result, last

vars == <<data, log, phase, result, last>>

(***************************************************************************)
(* Strings                                                                 *)
(***************************************************************************)

Digits == <<"0", "1", "2", "3", "4", "5", "6", "7", "8", "9">>

IsDigit(c) == \E i \in 1..10 : Digits[i] = c

DigitVal(c) == (CHOOSE i \in 1..10 : Digits[i] = c) - 1

Min(a, b) == IF a < b THEN a ELSE b

Max(a, b) == IF a < b THEN b ELSE a

\* s[a:b] for 0 <= a, 0 <= b
Slice(s, a, b) == SubSeq(s, a + 1, Min(b, Len(s)))

\* s.replace(from, to) for single characters
ReplaceChar(s, from, to) == [i \in 1..Len(s) |-> IF s[i] = from THEN to ELSE s[i]]

\* s.replace(c, '')
DeleteChar(s, c) == SelectSeq(s, LAMBDA x : x # c)

\* the index of the first sep in s at or after i, or 0
FindChar(s, sep, i) ==
    LET hits == {j \in i..Len(s) : s[j] = sep}
    IN  IF hits = {} THEN 0 ELSE CHOOSE j \in hits : \A h \in hits : j <= h

\* s.split(sep): empty pieces are kept
RECURSIVE SplitOn(_, _)
SplitOn(s, sep) ==
    LET k == FindChar(s, sep, 1)
    IN  IF k = 0 THEN <<s>>
        ELSE <<SubSeq(s, 1, k - 1)>> \o SplitOn(SubSeq(s, k + 1, Len(s)), sep)

\* s.split(): runs of blanks separate, empty pieces are dropped
RECURSIVE SplitBlank(_)
SplitBlank(s) ==
    IF s = <<>> THEN <<>>
    ELSE IF s[1] = " " THEN SplitBlank(Tail(s))
    ELSE LET k == FindChar(s, " ", 1)
         IN  IF k = 0 THEN <<s>>
             ELSE <<SubSeq(s, 1, k - 1)>> \o SplitBlank(SubSeq(s, k + 1, Len(s)))

\* sep.join(parts)
RECURSIVE Join(_, _)
Join(parts, sep) ==
    IF parts = <<>> THEN <<>>
    ELSE IF Len(parts) = 1 THEN parts[1]
    ELSE parts[1] \o sep \o Join(Tail(parts), sep)

\* int(s) succeeds on a non-empty run of decimal digits
IntOk(s) == Len(s) > 0 /\ \A i \in 1..Len(s) : IsDigit(s[i])

RECURSIVE ParseInt(_)
ParseInt(s) ==
    IF s = <<>> THEN 0
    ELSE ParseInt(SubSeq(s, 1, Len(s) - 1)) * 10 + DigitVal(s[Len(s)])

\* n as decimal digits, zero-padded to width w
RECURSIVE Pad(_, _)
Pad(n, w) ==
    IF w = 0 THEN <<>>
    ELSE Pad(n \div 10, w - 1) \o <<Digits[(n % 10) + 1]>>

\* str(n) for n >= 0
RECURSIVE IntStr(_)
IntStr(n) == IF n < 10 THEN <<Digits[n + 1]>> ELSE IntStr(n \div 10) \o <<Digits[(n % 10) + 1]>>

UpperCase == <<"A", "B", "C", "D", "M", "P", "X", "Y">>

LowerCase == <<"a", "b", "c", "d", "m", "p", "x", "y">>

\* c.lower() over the model's alphabet
LowerChar(c) ==
    IF \E i \in 1..Len(UpperCase) : UpperCase[i] = c
    THEN LowerCase[CHOOSE i \in 1..Len(UpperCase) : UpperCase[i] = c]
    ELSE c

\* s.lower()
Lower(s) == [i \in 1..Len(s) |-> LowerChar(s[i])]

\* the code points of the model's alphabet
Code ==
    (" " :> 32) @@ ("!" :> 33) @@ ("*" :> 42) @@ ("-" :> 45) @@ ("." :> 46) @@
    ("0" :> 48) @@ ("1" :> 49) @@ ("2" :> 50) @@ ("3" :> 51) @@ ("4" :> 52) @@
    ("5" :> 53) @@ ("6" :> 54) @@ ("7" :> 55) @@ ("8" :> 56) @@ ("9" :> 57) @@
    ("<" :> 60) @@ ("=" :> 61) @@ (">" :> 62) @@
    ("A" :> 65) @@ ("B" :> 66) @@ ("C" :> 67) @@ ("D" :> 68) @@ ("M" :> 77) @@
    ("P" :> 80) @@ ("X" :> 88) @@ ("Y" :> 89) @@
    ("a" :> 97) @@ ("b" :> 98) @@ ("c" :> 99) @@ ("d" :> 100) @@ ("e" :> 101) @@
    ("i" :> 105) @@ ("m" :> 109) @@ ("n" :> 110) @@ ("o" :> 111) @@ ("p" :> 112) @@
    ("r" :> 114) @@ ("s" :> 115) @@ ("t" :> 116) @@ ("x" :> 120) @@ ("y" :> 121) @@
    ("z" :> 122) @@ ("{" :> 123)

\* a < b for Python strings: by code point, a proper prefix is smaller
RECURSIVE StrLt(_, _)
StrLt(a, b) ==
    IF b = <<>> THEN FALSE
    ELSE IF a = <<>> THEN TRUE
    ELSE IF a[1] = b[1] THEN StrLt(Tail(a), Tail(b))
    ELSE Code[a[1]] < Code[b[1]]

StrLe(a, b) == a = b \/ StrLt(a, b)

(***************************************************************************)
(* Calendar arithmetic: datetime and dateutil.relativedelta                *)
(***************************************************************************)

IsLeap(y) == (y % 4 = 0 /\ y % 100 # 0) \/ y % 400 = 0

DaysInMonth(y, m) ==
    IF m \in {1, 3, 5, 7, 8, 10, 12} THEN 31
    ELSE IF m \in {4, 6, 9, 11} THEN 30
    ELSE IF IsLeap(y) THEN 29 ELSE 28

\* dt + relativedelta(years=years, months=months): the day is cut to the
\* length of the month reached
RelMonthsTotal(dt, years, months) ==
    LET total == (dt.y + years) * 12 + (dt.m - 1) + months
        y2    == total \div 12
        m2    == (total % 12) + 1
    IN  [y |-> y2, m |-> m2, d |-> Min(dt.d, DaysInMonth(y2, m2))]

RelYears(dt, n) == RelMonthsTotal(dt, n, 0)

RelMonths(dt, n) == RelMonthsTotal(dt, 0, n)

NextDay(dt) ==
    IF dt.d < DaysInMonth(dt.y, dt.m) THEN [dt EXCEPT !.d = dt.d + 1]
    ELSE IF dt.m < 12 THEN [y |-> dt.y, m |-> dt.m + 1, d |-> 1]
    ELSE [y |-> dt.y + 1, m |-> 1, d |-> 1]

PrevDay(dt) ==
    IF dt.d > 1 THEN [dt EXCEPT !.d = dt.d - 1]
    ELSE IF dt.m > 1 THEN [y |-> dt.y, m |-> dt.m - 1, d |-> DaysInMonth(dt.y, dt.m - 1)]
    ELSE [y |-> dt.y - 1, m |-> 12, d |-> 31]

\* dt + relativedelta(days=n)
RECURSIVE RelDays(_, _)
RelDays(dt, n) ==
    IF n = 0 THEN dt
    ELSE IF n > 0 THEN RelDays(NextDay(dt), n - 1)
    ELSE RelDays(PrevDay(dt), n + 1)

\* datetime.fromisoformat on a YYYY-MM-DD string
IsoOk(s) ==
    /\ Len(s) = 10
    /\ s[5] = "-" /\ s[8] = "-"
    /\ IntOk(Slice(s, 0, 4)) /\ IntOk(Slice(s, 5, 7)) /\ IntOk(Slice(s, 8, 10))
    /\ ParseInt(Slice(s, 0, 4)) >= 1
    /\ ParseInt(Slice(s, 5, 7)) \in 1..12
    /\ ParseInt(Slice(s, 8, 10)) \in
           1..DaysInMonth(ParseInt(Slice(s, 0, 4)), ParseInt(Slice(s, 5, 7)))

FromIso(s) ==
    [y |-> ParseInt(Slice(s, 0, 4)), m |-> ParseInt(Slice(s, 5, 7)),
     d |-> ParseInt(Slice(s, 8, 10))]

\* str(dt.date())
DateStr(dt) == Pad(dt.y, 4) \o <<"-">> \o Pad(dt.m, 2) \o <<"-">> \o Pad(dt.d, 2)

\* the reference date with month and day defaulted
PadDate(citing_date) ==
    IF Len(citing_date) = 7 THEN citing_date \o <<"-", "0", "1">>
    ELSE IF Len(citing_date) = 4 THEN citing_date \o <<"-", "0", "1", "-", "0", "1">>
    ELSE citing_date

\* the number strings of the descriptor
TimesItems(timespan) ==
    SplitOn(DeleteChar(Slice(ReplaceChar(ReplaceChar(timespan, "Y", ":"), "M", ":"),
                             1, Len(timespan) - 1), "P"), ":")

\* a variant of Times that negates the numbers of every descriptor
TimesAlwaysNegative(timespan) ==
    LET items == TimesItems(timespan)
    IN  [i \in 1..Len(items) |-> 0 - ParseInt(items[i])]

\* the numbers to add: negative when the descriptor starts with P
Times(timespan) ==
    LET items == TimesItems(timespan)
    IN  [i \in 1..Len(items) |->
            IF timespan[1] = "P" THEN 0 - ParseInt(items[i]) ELSE ParseInt(items[i])]

\* find_cited_date raises: int() or fromisoformat() fails
CitedDateRaises(citing_date, timespan) ==
    \/ timespan = <<>>
    \/ \E i \in 1..Len(TimesItems(timespan)) : ~IntOk(TimesItems(timespan)[i])
    \/ ~IsoOk(PadDate(citing_date))

\* the datetime reached: years, then months, then days when both are given
CitedDateTime(citing_date, timespan) ==
    LET times == Times(timespan)
        d0    == FromIso(PadDate(citing_date))
        d1    == RelYears(d0, times[1])
    IN  IF Len(times) = 1 THEN d1
        ELSE IF Len(times) = 2 THEN RelMonths(d1, times[2])
        ELSE RelDays(RelMonths(d1, times[2]), times[3])

find_cited_date(citing_date, timespan) ==
    Slice(DateStr(CitedDateTime(citing_date, timespan)), 0, Len(citing_date))

(***************************************************************************)
(* The query compiler                                                      *)
(***************************************************************************)

Quote == "\""

Backslash == "\\"

\* the characters re.escape puts a backslash before
ReSpecial ==
    {".", "^", "$", "*", "+", "?", "{", "}", "[", "]", "(", ")", "|", "-", "&", "~",
     "#", " ", Backslash}

\* re.escape(part)
RECURSIVE ReEscape(_)
ReEscape(part) ==
    IF part = <<>> THEN <<>>
    ELSE (IF part[1] \in ReSpecial THEN <<Backslash, part[1]>> ELSE <<part[1]>>)
         \o ReEscape(Tail(part))

\* escstring after the loop over the parts: "*" + re.escape(part) for each
RECURSIVE EscapeParts(_)
EscapeParts(parts) ==
    IF parts = <<>> THEN <<>>
    ELSE <<"*">> \o ReEscape(parts[1]) \o EscapeParts(Tail(parts))

escape_query_string(querystring) ==
    LET escstring == EscapeParts(SplitOn(querystring, "*"))
    IN  Slice(escstring, 1, Len(escstring))

\* word.replace("*", ".*?")
RECURSIVE StarToLazy(_)
StarToLazy(word) ==
    IF word = <<>> THEN <<>>
    ELSE (IF word[1] = "*" THEN <<".", "*", "?">> ELSE <<word[1]>>) \o StarToLazy(Tail(word))

BoolOperators == {<<"a", "n", "d">>, <<"o", "r">>, <<"n", "o", "t">>}

CallHead == <<"r", "e", ".", "s", "e", "a", "r", "c", "h", "(", Quote>>

CallMid == <<Quote, ",", Quote>>

CallTail == <<Quote, ")">>

Placeholder == <<"{", "0", "}">>

\* a search term as a re.search call on the placeholder
SearchWord(word) ==
    CallHead \o <<"^">> \o StarToLazy(escape_query_string(Lower(word))) \o <<"$">>
             \o CallMid \o Placeholder \o CallTail

RECURSIVE SearchEval(_)
SearchEval(wordlist) ==
    IF wordlist = <<>> THEN <<>>
    ELSE <<" ">>
         \o (IF wordlist[1] \in BoolOperators THEN wordlist[1] ELSE SearchWord(wordlist[1]))
         \o <<" ">> \o SearchEval(Tail(wordlist))

translate_query_string_for_search(query) == SearchEval(SplitBlank(query))

CompOps == {<<"<", "=">>, <<">", "=">>, <<"=", "=">>, <<"!", "=">>, <<"<">>, <<">">>}

\* the positions at which "{0}" is inserted: i grows by two at an operator
RECURSIVE InsertList(_, _)
InsertList(wordlist, i) ==
    IF wordlist = <<>> THEN <<>>
    ELSE IF wordlist[1] \in CompOps
         THEN <<i>> \o InsertList(Tail(wordlist), i + 2)
         ELSE InsertList(Tail(wordlist), i + 1)

\* list.insert(el, x), el counted from 0: past the end it appends
InsertAt(wordlist, el, x) ==
    SubSeq(wordlist, 1, Min(el, Len(wordlist))) \o <<x>>
        \o SubSeq(wordlist, Min(el, Len(wordlist)) + 1, Len(wordlist))

QuotedPlaceholder == <<Quote>> \o Placeholder \o <<Quote>>

\* the second loop: ok is FALSE when wordlist[el+2] is out of range
RECURSIVE InsertQuoted(_, _)
InsertQuoted(wordlist, insertlist) ==
    IF insertlist = <<>> THEN [ok |-> TRUE, words |-> wordlist]
    ELSE LET el == insertlist[1]
             w1 == InsertAt(wordlist, el, QuotedPlaceholder)
         IN  IF el + 2 >= Len(w1) THEN [ok |-> FALSE, words |-> w1]
             ELSE InsertQuoted([w1 EXCEPT ![el + 3] = <<Quote>> \o w1[el + 3] \o <<Quote>>],
                               Tail(insertlist))

\* translate_query_string_for_filter raises IndexError
FilterRaises(query) ==
    ~InsertQuoted(SplitBlank(query), InsertList(SplitBlank(query), 0)).ok

\* a variant of translate_query_string_for_filter that keeps the case of the query
translate_for_filter_keeping_case(query) ==
    Join(InsertQuoted(SplitBlank(query), InsertList(SplitBlank(query), 0)).words, <<" ">>)

translate_query_string_for_filter(query) ==
    Lower(Join(InsertQuoted(SplitBlank(query), InsertList(SplitBlank(query), 0)).words,
               <<" ">>))

(***************************************************************************)
(* The query evaluator: str.format, eval and re.search                     *)
(***************************************************************************)

\* the index of the first brace of the template, or 0
FirstBrace(template) ==
    LET hits == {j \in 1..Len(template) : template[j] \in {"{", "}"}}
    IN  IF hits = {} THEN 0 ELSE CHOOSE j \in hits : \A h \in hits : j <= h

\* requery.format(fieldvalue): "{0}" is replaced by the value, "{{" and "}}"
\* are single braces, and any other brace raises (ok is FALSE)
RECURSIVE Format(_, _)
Format(template, value) ==
    LET k == FirstBrace(template)
    IN  IF k = 0 THEN [ok |-> TRUE, s |-> template]
        ELSE IF Len(template) > k /\ template[k + 1] = template[k]
        THEN LET r == Format(SubSeq(template, k + 2, Len(template)), value)
             IN  [ok |-> r.ok, s |-> SubSeq(template, 1, k) \o r.s]
        ELSE IF Len(template) >= k + 2 /\ SubSeq(template, k, k + 2) = Placeholder
        THEN LET r == Format(SubSeq(template, k + 3, Len(template)), value)
             IN  [ok |-> r.ok, s |-> SubSeq(template, 1, k - 1) \o value \o r.s]
        ELSE [ok |-> FALSE, s |-> <<>>]

StartsWith(s, prefix) == Len(s) >= Len(prefix) /\ SubSeq(s, 1, Len(prefix)) = prefix

EndsWith(s, suffix) ==
    Len(s) >= Len(suffix) /\ SubSeq(s, Len(s) - Len(suffix) + 1, Len(s)) = suffix

Letters ==
    {"a", "b", "c", "d", "e", "i", "m", "n", "o", "p", "r", "s", "t", "x", "y", "z",
     "A", "B", "C", "D", "M", "P", "X", "Y"}

\* a Python identifier
IsIdentifier(w) ==
    /\ Len(w) > 0
    /\ w[1] \in Letters
    /\ \A i \in 1..Len(w) : w[i] \in Letters \/ IsDigit(w[i])

\* a decimal integer literal
IsNumber(w) == IntOk(w) /\ (w[1] # "0" \/ \A i \in 1..Len(w) : w[i] = "0")

\* a double-quoted string literal without a quote or a backslash inside
IsStringLit(w) ==
    /\ Len(w) >= 2
    /\ w[1] = Quote /\ w[Len(w)] = Quote
    /\ \A i \in 2..(Len(w) - 1) : w[i] # Quote /\ w[i] # Backslash

\* the text between the two ends of a re.search("...","...") call
CallInner(w) == SubSeq(w, Len(CallHead) + 1, Len(w) - Len(CallTail))

\* a call re.search("pattern","subject"): the only quotes inside are those of
\* the separator, and every backslash of the pattern stands before a character
\* that is no escape of a Python string literal
IsCall(w) ==
    /\ StartsWith(w, CallHead) /\ EndsWith(w, CallTail)
    /\ Len(w) >= Len(CallHead) + Len(CallMid) + Len(CallTail)
    /\ LET inner == CallInner(w)
           k     == FindChar(inner, Quote, 1)
       IN  /\ k > 0
           /\ Len(inner) >= k + 2 /\ SubSeq(inner, k, k + 2) = CallMid
           /\ \A i \in (k + 3)..Len(inner) : inner[i] # Quote /\ inner[i] # Backslash
           /\ \A i \in 1..(k - 1) :
                  inner[i] = Backslash => (i + 1 <= k - 1 /\ inner[i + 1] \in ReSpecial \ {Backslash}
                                           /\ (i = 1 \/ inner[i - 1] # Backslash))

CallPattern(w) == SubSeq(CallInner(w), 1, FindChar(CallInner(w), Quote, 1) - 1)

CallSubject(w) ==
    SubSeq(CallInner(w), FindChar(CallInner(w), Quote, 1) + 3, Len(CallInner(w)))

\* the Python token a blank-separated word of the expression is
Token(w) ==
    IF w = <<"o", "r">> THEN [k |-> "or", a |-> <<>>, b |-> <<>>]
    ELSE IF w = <<"a", "n", "d">> THEN [k |-> "and", a |-> <<>>, b |-> <<>>]
    ELSE IF w = <<"n", "o", "t">> THEN [k |-> "not", a |-> <<>>, b |-> <<>>]
    ELSE IF w \in CompOps THEN [k |-> "cmp", a |-> w, b |-> <<>>]
    ELSE IF IsStringLit(w) THEN [k |-> "str", a |-> SubSeq(w, 2, Len(w) - 1), b |-> <<>>]
    ELSE IF IsCall(w) THEN [k |-> "call", a |-> CallPattern(w), b |-> CallSubject(w)]
    ELSE IF IsNumber(w) THEN [k |-> "num", a |-> w, b |-> <<>>]
    ELSE IF IsIdentifier(w) THEN [k |-> "name", a |-> w, b |-> <<>>]
    ELSE [k |-> "bad", a |-> w, b |-> <<>>]

Tokens(s) == [i \in 1..Len(SplitBlank(s)) |-> Token(SplitBlank(s)[i])]

\* the index of the first token of kind k, or 0
RECURSIVE FindTok(_, _, _)
FindTok(toks, k, i) ==
    IF i > Len(toks) THEN 0
    ELSE IF toks[i].k = k THEN i
    ELSE FindTok(toks, k, i + 1)

\* the runs of tokens between the tokens of kind k
RECURSIVE SplitTok(_, _)
SplitTok(toks, k) ==
    LET i == FindTok(toks, k, 1)
    IN  IF i = 0 THEN <<toks>>
        ELSE <<SubSeq(toks, 1, i - 1)>> \o SplitTok(SubSeq(toks, i + 1, Len(toks)), k)

\* the items of a pattern: an anchor, ".", an escaped or a plain character,
\* each with star set when "*" (or the lazy "*?") follows it
RECURSIVE RegexItems(_)
RegexItems(p) ==
    IF p = <<>> THEN <<>>
    ELSE LET esc  == p[1] = Backslash /\ Len(p) >= 2
             n    == IF esc THEN 2 ELSE 1
             t    == IF esc THEN "lit"
                     ELSE IF p[1] = "^" THEN "bol"
                     ELSE IF p[1] = "$" THEN "eol"
                     ELSE IF p[1] = "." THEN "any"
                     ELSE "lit"
             star == Len(p) > n /\ p[n + 1] = "*"
             lazy == star /\ Len(p) > n + 1 /\ p[n + 2] = "?"
             used == n + (IF star THEN 1 ELSE 0) + (IF lazy THEN 1 ELSE 0)
         IN  <<[t |-> t, c |-> p[n], star |-> star]>>
                 \o RegexItems(SubSeq(p, used + 1, Len(p)))

\* the item matches the one character c
ItemTakes(item, c) == item.t = "any" \/ (item.t = "lit" /\ item.c = c)

\* the items from i on match s from position j on
RECURSIVE ReMatch(_, _, _, _)
ReMatch(items, i, s, j) ==
    IF i > Len(items) THEN TRUE
    ELSE IF items[i].star
    THEN \/ ReMatch(items, i + 1, s, j)
         \/ (j <= Len(s) /\ ItemTakes(items[i], s[j]) /\ ReMatch(items, i, s, j + 1))
    ELSE IF items[i].t = "bol" THEN j = 1 /\ ReMatch(items, i + 1, s, j)
    ELSE IF items[i].t = "eol" THEN j = Len(s) + 1 /\ ReMatch(items, i + 1, s, j)
    ELSE j <= Len(s) /\ ItemTakes(items[i], s[j]) /\ ReMatch(items, i + 1, s, j + 1)

\* re.search(pattern, subject) finds a match
ReSearch(pattern, subject) ==
    \E start \in 1..(Len(subject) + 1) : ReMatch(RegexItems(pattern), 1, subject, start)

\* the tokens after the leading not's
RECURSIVE StripNot(_)
StripNot(toks) ==
    IF toks # <<>> /\ toks[1].k = "not" THEN StripNot(Tail(toks)) ELSE toks

\* an operand of a comparison: adjacent string literals, or one name, call or number
OperandOk(run) ==
    /\ run # <<>>
    /\ \/ \A i \in 1..Len(run) : run[i].k = "str"
       \/ (Len(run) = 1 /\ run[1].k \in {"name", "call", "num"})

\* not_test: not's, then operands separated by comparison operators
FactorOk(toks) ==
    LET operands == SplitTok(StripNot(toks), "cmp")
    IN  \A i \in 1..Len(operands) : OperandOk(operands[i])

\* the expression compiles: or_test over and_test over not_test
SyntaxOk(toks) ==
    /\ toks # <<>>
    /\ \A i \in 1..Len(SplitTok(toks, "or")) :
           \A j \in 1..Len(SplitTok(SplitTok(toks, "or")[i], "and")) :
               FactorOk(SplitTok(SplitTok(toks, "or")[i], "and")[j])

\* the concatenation of adjacent string literals
RECURSIVE ConcatLits(_)
ConcatLits(run) == IF run = <<>> THEN <<>> ELSE run[1].a \o ConcatLits(Tail(run))

\* a op b on strings
StrCompare(a, op, b) ==
    IF op = <<"=", "=">> THEN a = b
    ELSE IF op = <<"!", "=">> THEN a # b
    ELSE IF op = <<"<">> THEN StrLt(a, b)
    ELSE IF op = <<">">> THEN StrLt(b, a)
    ELSE IF op = <<"<", "=">> THEN StrLe(a, b)
    ELSE StrLe(b, a)

TF(b) == IF b THEN "T" ELSE "F"

\* the truth of an operand standing alone; a name is not bound: NameError ("E")
OperandTruth(run) ==
    IF run[1].k = "str" THEN TF(ConcatLits(run) # <<>>)
    ELSE IF run[1].k = "call" THEN TF(ReSearch(run[1].a, run[1].b))
    ELSE IF run[1].k = "num" THEN TF(ParseInt(run[1].a) # 0)
    ELSE "E"

\* a op b for two operands: the translators put a string literal on both sides
\* of every operator; a name raises, and another operand never equals a string
\* and cannot be ordered with it
OperandCompare(x, op, y) ==
    IF x[1].k = "name" \/ y[1].k = "name" THEN "E"
    ELSE IF x[1].k = "str" /\ y[1].k = "str"
    THEN TF(StrCompare(ConcatLits(x), op, ConcatLits(y)))
    ELSE IF op = <<"=", "=">> THEN "F"
    ELSE IF op = <<"!", "=">> THEN "T"
    ELSE "E"

\* a chained comparison: stops at the first false link
RECURSIVE EvalChain(_, _)
EvalChain(operands, ops) ==
    LET v == OperandCompare(operands[1], ops[1].a, operands[2])
    IN  IF v # "T" \/ Len(ops) = 1 THEN v
        ELSE EvalChain(Tail(operands), Tail(ops))

EvalComparison(toks) ==
    LET operands == SplitTok(toks, "cmp")
        ops      == SelectSeq(toks, LAMBDA t : t.k = "cmp")
    IN  IF Len(operands) = 1 THEN OperandTruth(operands[1])
        ELSE EvalChain(operands, ops)

RECURSIVE EvalNot(_)
EvalNot(toks) ==
    IF toks[1].k = "not"
    THEN LET v == EvalNot(Tail(toks))
         IN  IF v = "E" THEN "E" ELSE IF v = "T" THEN "F" ELSE "T"
    ELSE EvalComparison(toks)

\* x and y: y is evaluated only when x is true
RECURSIVE EvalAnd(_)
EvalAnd(factors) ==
    LET v == EvalNot(factors[1])
    IN  IF v # "T" \/ Len(factors) = 1 THEN v ELSE EvalAnd(Tail(factors))

\* x or y: y is evaluated only when x is false
RECURSIVE EvalOr(_)
EvalOr(groups) ==
    LET v == EvalAnd(SplitTok(groups[1], "and"))
    IN  IF v # "F" \/ Len(groups) = 1 THEN v ELSE EvalOr(Tail(groups))

\* bool(eval(s)): "T", "F", or "E" when compiling or evaluating raises
PyEval(s) ==
    IF SyntaxOk(Tokens(s)) THEN EvalOr(SplitTok(Tokens(s), "or")) ELSE "E"

evaluate_query_string(requery, fieldvalue) ==
    LET f == Format(requery, fieldvalue)
    IN  f.ok /\ PyEval(f.s) = "T"

(***************************************************************************)
(* The directed graph (networkx.DiGraph): nodes, edges, and the attribute  *)
(* each node or edge may carry                                             *)
(***************************************************************************)

EmptyFn == [x \in {} |-> x]

\* nx.DiGraph()
EmptyGraph == [nodes |-> {}, edges |-> {}, creation |-> EmptyFn, timespan |-> EmptyFn]

\* data.add_node(n, creation=c)
AddNode(g, n, c) ==
    [g EXCEPT !.nodes = @ \cup {n},
              !.creation = [x \in DOMAIN g.creation \cup {n} |->
                               IF x = n THEN c ELSE g.creation[x]]]

\* data.add_edge(u, v, timespan=t): the attribute of an existing edge is overwritten
AddEdge(g, u, v, t) ==
    [g EXCEPT !.nodes = @ \cup {u, v},
              !.edges = @ \cup {<<u, v>>},
              !.timespan = [e \in DOMAIN g.timespan \cup {<<u, v>>} |->
                               IF e = <<u, v>> THEN t ELSE g.timespan[e]]]

\* result.add_edges_from(edges): nodes and edges without attributes
AddEdgesFrom(g, edges) ==
    [g EXCEPT !.nodes = @ \cup {e[1] : e \in edges} \cup {e[2] : e \in edges},
              !.edges = @ \cup edges]

Predecessors(g, n) == {u \in g.nodes : <<u, n>> \in g.edges}

Successors(g, n) == {v \in g.nodes : <<n, v>> \in g.edges}

\* nx.compose(G, H): the union, H's attributes over G's
Compose(G, H) ==
    [nodes    |-> G.nodes \cup H.nodes,
     edges    |-> G.edges \cup H.edges,
     creation |-> [n \in DOMAIN G.creation \cup DOMAIN H.creation |->
                      IF n \in DOMAIN H.creation THEN H.creation[n] ELSE G.creation[n]],
     timespan |-> [e \in DOMAIN G.timespan \cup DOMAIN H.timespan |->
                      IF e \in DOMAIN H.timespan THEN H.timespan[e] ELSE G.timespan[e]]]

\* what a view made by base.edge_subgraph(keep) shows of base: the kept edges
\* base still has, between the nodes induced by keep that base still has,
\* with base's attributes
ViewOf(base, keep, ind) ==
    LET ns == ind \cap base.nodes
        es == {e \in keep \cap base.edges : e[1] \in ns /\ e[2] \in ns}
    IN  [nodes    |-> ns,
         edges    |-> es,
         creation |-> [n \in ns \cap DOMAIN base.creation |-> base.creation[n]],
         timespan |-> [e \in es \cap DOMAIN base.timespan |-> base.timespan[e]]]

(***************************************************************************)
(* Ingestion                                                               *)
(***************************************************************************)

\* a variant of WithCiting that sets the creation of the citing node on every row
WithCitingOverwrite(g, row) == AddNode(g, row[1], row[3])

\* the graph after the citing node of the row is added when it is new
WithCiting(g, row) ==
    IF row[1] \notin g.nodes THEN AddNode(g, row[1], row[3]) ELSE g

\* one pass of the loop body over a row
ProcessRow(g, row) ==
    IF Len(row) # 4 THEN g
    ELSE LET g1 == WithCiting(g, row)
             g2 == IF row[2] \notin g1.nodes
                   THEN AddNode(g1, row[2], find_cited_date(row[3], row[4]))
                   ELSE g1
         IN  AddEdge(g2, row[1], row[2], row[4])

\* the loop body raises: the cited node is new and its date cannot be derived
RowRaises(g, row) ==
    /\ Len(row) = 4
    /\ row[2] \notin WithCiting(g, row).nodes
    /\ CitedDateRaises(row[3], row[4])

(***************************************************************************)
(* Analytics                                                               *)
(***************************************************************************)

\* int(data.nodes[n]['creation'][0:4])
CreationYear(g, n) == ParseInt(Slice(g.creation[n], 0, 4))

\* reading the year of n raises: no creation attribute, or no integer
YearRaises(g, n) == n \notin DOMAIN g.creation \/ ~IntOk(Slice(g.creation[n], 0, 4))

\* the two counters after the loop over dois
RECURSIVE ImpactCounters(_, _, _)
ImpactCounters(g, dois, year) ==
    IF dois = {} THEN [citing_cntr |-> 0, previous_years_dois_cntr |-> 0]
    ELSE LET doi  == CHOOSE d \in dois : TRUE
             rest == ImpactCounters(g, dois \ {doi}, year)
         IN  IF doi \notin g.nodes THEN rest
             ELSE [citing_cntr |->
                      rest.citing_cntr
                          + Cardinality({c \in Predecessors(g, doi) : CreationYear(g, c) = year}),
                   previous_years_dois_cntr |->
                      rest.previous_years_dois_cntr
                          + (IF CreationYear(g, doi) = year - 1 \/ CreationYear(g, doi) = year - 2
                             THEN 1 ELSE 0)]

ImpactRaises(g, dois) ==
    \E doi \in dois \cap g.nodes :
        YearRaises(g, doi) \/ \E c \in Predecessors(g, doi) : YearRaises(g, c)

\* a variant of do_compute_impact_factor that returns None when the citation
\* counter is zero instead
impact_factor_none_on_no_citations(g, dois, year) ==
    LET c == ImpactCounters(g, dois, year)
    IN  IF c.citing_cntr = 0
        THEN [none |-> TRUE, num |-> 0, den |-> 0]
        ELSE [none |-> FALSE, num |-> c.citing_cntr, den |-> c.previous_years_dois_cntr]

\* None, or the quotient citing_cntr / previous_years_dois_cntr as its two terms
do_compute_impact_factor(g, dois, year) ==
    LET c == ImpactCounters(g, dois, year)
    IN  IF c.previous_years_dois_cntr = 0
        THEN [none |-> TRUE, num |-> 0, den |-> 0]
        ELSE [none |-> FALSE, num |-> c.citing_cntr, den |-> c.previous_years_dois_cntr]

\* a variant of do_get_co_citations that intersects the predecessors of doi1
\* with the successors of doi2
co_citations_mixed(g, doi1, doi2) ==
    IF doi1 \in g.nodes /\ doi2 \in g.nodes
    THEN Cardinality(Predecessors(g, doi1) \cap Successors(g, doi2))
    ELSE 0

do_get_co_citations(g, doi1, doi2) ==
    IF doi1 \in g.nodes /\ doi2 \in g.nodes
    THEN Cardinality(Predecessors(g, doi1) \cap Predecessors(g, doi2))
    ELSE 0

do_get_bibliographic_coupling(g, doi1, doi2) ==
    IF doi1 \in g.nodes /\ doi2 \in g.nodes
    THEN Cardinality(Successors(g, doi1) \cap Successors(g, doi2))
    ELSE 0

\* the test of the two bounds
WindowOk(start, end) == StrLe(start, end) /\ Len(start) = 4 /\ Len(end) = 4

\* the year string of a node
YearPrefix(g, n) == Slice(g.creation[n], 0, 4)

\* the loop over the edges raises KeyError: an endpoint has no creation
NetworkRaises(g, start, end) ==
    /\ WindowOk(start, end)
    /\ \E e \in g.edges : e[1] \notin DOMAIN g.creation \/ e[2] \notin DOMAIN g.creation

\* a variant of eligible_edges that tests the citing endpoint only
eligible_edges_citing_only(g, start, end) ==
    IF WindowOk(start, end)
    THEN {e \in g.edges :
             StrLe(start, YearPrefix(g, e[1])) /\ StrLe(YearPrefix(g, e[1]), end)}
    ELSE {}

eligible_edges(g, start, end) ==
    IF WindowOk(start, end)
    THEN {e \in g.edges :
             /\ StrLe(start, YearPrefix(g, e[1])) /\ StrLe(YearPrefix(g, e[1]), end)
             /\ StrLe(start, YearPrefix(g, e[2])) /\ StrLe(YearPrefix(g, e[2]), end)}
    ELSE {}

do_get_citation_network(g, start, end) ==
    AddEdgesFrom(EmptyGraph, eligible_edges(g, start, end))

\* nx.compose of two graphs of the same type
do_merge_graphs(g1, g2) == Compose(g1, g2)

(***************************************************************************)
(* The inputs of the model                                                 *)
(***************************************************************************)

\* how many records the citation file holds at most
MaxRows == 2

IdA == <<"a">>

IdB == <<"B">>

IdC == <<"c">>

\* an identifier no record mentions
IdZ == <<"z">>

Ids == {IdA, IdB, IdC}

Y2019 == <<"2", "0", "1", "9">>

Y2020 == <<"2", "0", "2", "0">>

Y2021 == <<"2", "0", "2", "1">>

P1Y == <<"P", "1", "Y">>

P2Y == <<"P", "2", "Y">>

\* the records a file may hold: a first and a second citation a -> B with
\* different dates and descriptors, B citing with a date of its own, two more
\* citations, a record of three fields, a record with a malformed descriptor
Rows ==
    { <<IdA, IdB, <<"2", "0", "2", "0", "-", "0", "3">>, P1Y>>,
      <<IdA, IdB, Y2020, P2Y>>,
      <<IdB, IdA, Y2021, <<"-", "P", "1", "Y", "2", "M">>>>,
      <<IdA, IdC, <<"2", "0", "2", "0", "-", "0", "3", "-", "1", "5">>,
        <<"P", "0", "Y", "1", "M", "2", "0", "D">>>>,
      <<IdB, IdC, Y2019, P1Y>>,
      <<IdA, IdB, Y2020>>,
      <<IdC, IdA, Y2021, <<"1", "Y">>>> }

\* (start, end) of a time window
WindowArgs ==
    { <<Y2019, Y2020>>, <<Y2020, Y2020>>, <<Y2021, Y2019>>,
      <<<<"2", "0", "1">>, Y2020>>, <<Y2019, <<"2", "0", "2", "0", "0">>>> }

Fields == {"citing", "cited", "creation", "timespan", "doi"}

SearchQueries ==
    { <<"b", "*">>,
      <<"a", " ", "o", "r", " ", "n", "o", "t", " ", "2", "0", "2", "*">> }

QueryP1Y == <<"=", "=", " ", "P", "1", "Y">>

QueryTimespanP1Y ==
    <<"t", "i", "m", "e", "s", "p", "a", "n", " ", "=", "=", " ", "P", "1", "Y">>

FilterQueries == {QueryP1Y, QueryTimespanP1Y, <<">", "=", " ", "2", "0", "2", "0">>, <<"=", "=">>}

DocSets == {{IdA}, {IdB, IdC}, {IdA, IdB, IdZ}}

Years == {2020, 2021}

DocPairs ==
    {<<IdA, IdB>>, <<IdB, IdC>>, <<IdC, IdA>>, <<IdB, IdB>>, <<IdA, IdZ>>, <<IdZ, IdB>>}

\* the identifiers of the graphs searched with wildcards
WildIds ==
    { <<"a", "b">>, <<"a", "b", "c">>, <<"a", "b", "x", "y", "z">>, <<"x", "a", "b">>,
      <<"a", "c">>, <<"a", "b", "b", "b", "c">>, <<"a", "b", "c", "d">>,
      <<"a", "b", "x">>, <<"c", "d", "x">>, <<"x", "y", "z">>,
      <<"A", "B", "c">>, <<"a", ".", "c">>, <<"a", "{">> }

\* the wildcard queries
WildQueries ==
    { <<"a", "b", "*">>,
      <<"a", "*", "c">>,
      <<"a", "b", "*", " ", "a", "n", "d", " ", "n", "o", "t", " ", "c", "d", "*">>,
      <<"A", "b", "C">>,
      <<"*">>,
      <<"a", ".", "c">>,
      <<"a", "{">>,
      <<"*", "b", "*">>,
      <<"n", "o", "t", " ", "a", "*", " ", "o", "r", " ", "*", "d">>,
      <<"x", "*", " ", "o", "r", " ", "a", "*", " ", "a", "n", "d", " ", "*", "c">>,
      <<"n", "o", "t", " ", "n", "o", "t", " ", "*", "x">>,
      <<"a", "b", " ", "a", "c">>,
      <<"a", "b", " ", "o", "r">> }

\* every value a query is evaluated on: case-folded identifiers, the creation
\* dates the records give or the resolver derives, case-folded descriptors
FieldValues ==
    {Lower(n) : n \in Ids \cup WildIds}
        \cup {r[3] : r \in Rows}
        \cup {find_cited_date(r[3], r[4]) :
                 r \in {x \in Rows : Len(x) = 4 /\ ~CitedDateRaises(x[3], x[4])}}
        \cup {Lower(r[4]) : r \in {x \in Rows : Len(x) = 4}}

\* translate_query_string_for_search, computed once for every query
SearchRequery ==
    [query \in SearchQueries \cup WildQueries |-> translate_query_string_for_search(query)]

\* translate_query_string_for_filter, computed once for every query it
\* returns on
FilterRequery ==
    [query \in {x \in FilterQueries : ~FilterRaises(x)} |->
        translate_query_string_for_filter(query)]

\* every compiled query
Requeries ==
    {SearchRequery[q] : q \in DOMAIN SearchRequery}
        \cup {FilterRequery[q] : q \in DOMAIN FilterRequery}

\* evaluate_query_string, computed once for every compiled query and value
Evaluated ==
    [requery \in Requeries |->
        [fieldvalue \in FieldValues |-> evaluate_query_string(requery, fieldvalue)]]

(***************************************************************************)
(* Search and filter over the edges                                        *)
(***************************************************************************)

\* building the list raises KeyError: the attribute read for an edge is missing
FilteredRaises(g, field) ==
    \/ field = "creation" /\ \E e \in g.edges : e[1] \notin DOMAIN g.creation
    \/ field = "timespan" /\ \E e \in g.edges : e \notin DOMAIN g.timespan

get_filtered_list(g, requery, field) ==
    IF field = "citing"
    THEN {e \in g.edges : Evaluated[requery][Lower(e[1])]}
    ELSE IF field = "cited"
    THEN {e \in g.edges : Evaluated[requery][Lower(e[2])]}
    ELSE IF field = "creation"
    THEN {e \in g.edges : Evaluated[requery][g.creation[e[1]]]}
    ELSE IF field = "timespan"
    THEN {e \in g.edges : Evaluated[requery][Lower(g.timespan[e])]}
    ELSE {}

(***************************************************************************)
(* The state: the graph under construction (data), the records read (log), *)
(* where the program is (phase), the graph the last operation returned     *)
(* (result) and the last call with its arguments and outcome (last)        *)
(***************************************************************************)

NoResult == [kind |-> "none", exc |-> "", live |-> FALSE, g |-> EmptyGraph,
             keep |-> {}, ind |-> {}]

\* a graph of its own
Fresh(g) == [NoResult EXCEPT !.kind = "graph", !.g = g]

\* the call raised
Raised(exc) == [NoResult EXCEPT !.kind = "raise", !.exc = exc]

IsGraph(r) == r.kind \in {"graph", "view"}

\* the graph read through a returned value now: a view reads its base, which
\* is data itself when the view was taken of data
Value(r) ==
    IF r.kind = "view" THEN ViewOf(IF r.live THEN data ELSE r.g, r.keep, r.ind)
    ELSE r.g

\* the graphs an operation can be given: data, and the graph returned last
Sources == {"data"} \cup (IF IsGraph(result) THEN {"result"} ELSE {})

SrcGraph(sel) == IF sel = "data" THEN data ELSE Value(result)

\* sel.edge_subgraph(filtered_edges): a view of sel; a view of a view reads
\* the same base
EdgeSubgraph(sel, filtered_edges) ==
    LET ind == {e[1] : e \in filtered_edges} \cup {e[2] : e \in filtered_edges}
    IN  IF sel = "data"
        THEN [NoResult EXCEPT !.kind = "view", !.live = TRUE,
                              !.keep = filtered_edges, !.ind = ind]
        ELSE IF result.kind = "view"
        THEN [result EXCEPT !.keep = filtered_edges, !.ind = ind]
        ELSE [NoResult EXCEPT !.kind = "view", !.g = result.g,
                              !.keep = filtered_edges, !.ind = ind]

NoCall == [op |-> "none", src |-> EmptyGraph, arg |-> <<>>, out |-> <<>>]

Init ==
    /\ data = EmptyGraph
    /\ log = <<>>
    /\ phase = "open"
    /\ result = NoResult
    /\ last = NoCall

\* next(csv_reader): the line of the column headings
SkipHeader ==
    /\ phase = "open"
    /\ phase' = "rows"
    /\ UNCHANGED <<data, log, result, last>>

\* one turn of the loop over the rows
ReadRow(row) ==
    /\ phase = "rows"
    /\ Len(log) < MaxRows
    /\ log' = Append(log, row)
    /\ IF RowRaises(data, row)
       THEN phase' = "fault" /\ data' = data
       ELSE phase' = phase /\ data' = ProcessRow(data, row)
    /\ UNCHANGED <<result, last>>

\* the file is closed and data returned
Return ==
    /\ phase = "rows"
    /\ phase' = "query"
    /\ log' = <<>>
    /\ UNCHANGED <<data, result, last>>

ImpactFactor(sel, dois, year) ==
    /\ phase = "query"
    /\ sel \in Sources
    /\ last' = [op |-> "impact", src |-> SrcGraph(sel), arg |-> <<dois, year>>,
                out |-> IF ImpactRaises(SrcGraph(sel), dois) THEN <<"raise">>
                        ELSE <<"return", do_compute_impact_factor(SrcGraph(sel), dois, year)>>]
    /\ UNCHANGED <<data, log, phase, result>>

CoCitations(sel, doi1, doi2) ==
    /\ phase = "query"
    /\ sel \in Sources
    /\ last' = [op |-> "cocitation", src |-> SrcGraph(sel), arg |-> <<doi1, doi2>>,
                out |-> <<"return", do_get_co_citations(SrcGraph(sel), doi1, doi2)>>]
    /\ UNCHANGED <<data, log, phase, result>>

BibliographicCoupling(sel, doi1, doi2) ==
    /\ phase = "query"
    /\ sel \in Sources
    /\ last' = [op |-> "coupling", src |-> SrcGraph(sel), arg |-> <<doi1, doi2>>,
                out |-> <<"return", do_get_bibliographic_coupling(SrcGraph(sel), doi1, doi2)>>]
    /\ UNCHANGED <<data, log, phase, result>>

CitationNetwork(sel, start, end) ==
    /\ phase = "query"
    /\ sel \in Sources
    /\ result' = IF NetworkRaises(SrcGraph(sel), start, end) THEN Raised("KeyError")
                 ELSE Fresh(do_get_citation_network(SrcGraph(sel), start, end))
    /\ last' = [op |-> "network", src |-> SrcGraph(sel), arg |-> <<start, end>>,
                out |-> <<>>]
    /\ UNCHANGED <<data, log, phase>>

MergeGraphs(sel1, sel2) ==
    /\ phase = "query"
    /\ sel1 \in Sources /\ sel2 \in Sources
    /\ result' = Fresh(do_merge_graphs(SrcGraph(sel1), SrcGraph(sel2)))
    /\ last' = [op |-> "merge", src |-> SrcGraph(sel1), arg |-> <<SrcGraph(sel2)>>,
                out |-> <<>>]
    /\ UNCHANGED <<data, log, phase>>

\* do_search; out is the graph the returned value shows when it is returned
Search(sel, query, field) ==
    /\ phase = "query"
    /\ sel \in Sources
    /\ LET src == SrcGraph(sel)
           r   == IF FilteredRaises(src, field) THEN Raised("KeyError")
                  ELSE EdgeSubgraph(sel, get_filtered_list(src, SearchRequery[query], field))
       IN  /\ result' = r
           /\ last' = [op |-> "search", src |-> src, arg |-> <<query, field>>,
                       out |-> IF r.kind = "raise" THEN <<>>
                               ELSE <<ViewOf(src, r.keep, r.ind)>>]
    /\ UNCHANGED <<data, log, phase>>

\* do_filter_by_value
FilterByValue(sel, query, field) ==
    /\ phase = "query"
    /\ sel \in Sources
    /\ LET src == SrcGraph(sel)
           r   == IF query \notin DOMAIN FilterRequery THEN Raised("IndexError")
                  ELSE IF FilteredRaises(src, field) THEN Raised("KeyError")
                  ELSE EdgeSubgraph(sel, get_filtered_list(src, FilterRequery[query], field))
       IN  /\ result' = r
           /\ last' = [op |-> "filter", src |-> src, arg |-> <<query, field>>,
                       out |-> IF r.kind = "raise" THEN <<>>
                               ELSE <<ViewOf(src, r.keep, r.ind)>>]
    /\ UNCHANGED <<data, log, phase>>

Sel == {"data", "result"}

\* process_citations, record by record
Ingest ==
    \/ SkipHeader
    \/ \E row \in Rows : ReadRow(row)
    \/ Return

\* ingestion, then the analytics and the time windows, each on data or on the
\* graph returned last
Next ==
    \/ Ingest
    \/ \E sel \in Sel, dois \in DocSets, year \in Years : ImpactFactor(sel, dois, year)
    \/ \E sel \in Sel, p \in DocPairs : CoCitations(sel, p[1], p[2])
    \/ \E sel \in Sel, p \in DocPairs : BibliographicCoupling(sel, p[1], p[2])
    \/ \E sel \in Sel, w \in WindowArgs : CitationNetwork(sel, w[1], w[2])

Spec == Init /\ [][Next]_vars

\* ingestion, then the operations that return graphs, each on data or on the
\* graph returned last
NextPipeline ==
    \/ Ingest
    \/ \E sel \in Sel, w \in WindowArgs : CitationNetwork(sel, w[1], w[2])
    \/ \E sel1 \in Sel, sel2 \in Sel : MergeGraphs(sel1, sel2)
    \/ \E sel \in Sel, q \in SearchQueries, f \in Fields : Search(sel, q, f)
    \/ \E sel \in Sel, q \in FilterQueries, f \in Fields : FilterByValue(sel, q, f)

SpecPipeline == Init /\ [][NextPipeline]_vars

\* ingestion, then searches and filters, each on data or on the graph returned
\* last
NextSelect ==
    \/ Ingest
    \/ \E sel \in Sel, q \in SearchQueries, f \in Fields : Search(sel, q, f)
    \/ \E sel \in Sel, q \in FilterQueries, f \in Fields : FilterByValue(sel, q, f)

SpecSelect == Init /\ [][NextSelect]_vars

\* the restriction of the function f to the set keys
Restrict(f, keys) == [x \in keys \cap DOMAIN f |-> f[x]]

\* g.remove_edge(u, v)
RemoveEdge(g, e) ==
    [g EXCEPT !.edges = @ \ {e}, !.timespan = Restrict(@, DOMAIN @ \ {e})]

\* g.remove_node(n): the node goes with its edges
RemoveNode(g, n) ==
    LET gone == {e \in g.edges : e[1] = n \/ e[2] = n}
    IN  [nodes    |-> g.nodes \ {n},
         edges    |-> g.edges \ gone,
         creation |-> Restrict(g.creation, DOMAIN g.creation \ {n}),
         timespan |-> Restrict(g.timespan, DOMAIN g.timespan \ gone)]

\* the owner of data changes it after a search or a filter has returned: the
\* graph new replaces data
Mutate(new) ==
    /\ phase = "query"
    /\ last.op \in {"search", "filter"}
    /\ new # data
    /\ data' = new
    /\ phase' = "mutated"
    /\ UNCHANGED <<log, result, last>>

MutateRemoveEdge(e) == e \in data.edges /\ Mutate(RemoveEdge(data, e))

MutateRemoveNode(n) == n \in data.nodes /\ Mutate(RemoveNode(data, n))

MutateAddNode(n, c) == n \notin data.nodes /\ Mutate(AddNode(data, n, c))

MutateAddEdge(u, v, t) == <<u, v>> \notin data.edges /\ Mutate(AddEdge(data, u, v, t))

\* data.nodes[n]['creation'] = c
MutateCreation(n, c) == n \in data.nodes /\ Mutate(AddNode(data, n, c))

\* data.edges[u, v]['timespan'] = t
MutateTimespan(e, t) == e \in data.edges /\ Mutate(AddEdge(data, e[1], e[2], t))

\* ingestion, a search or a filter of data, then one change of data
NextAlias ==
    \/ Ingest
    \/ \E q \in SearchQueries, f \in Fields : Search("data", q, f)
    \/ \E q \in FilterQueries, f \in Fields : FilterByValue("data", q, f)
    \/ \E e \in Ids \X Ids : MutateRemoveEdge(e)
    \/ \E n \in Ids : MutateRemoveNode(n)
    \/ \E n \in Ids \cup {IdZ} : MutateAddNode(n, Y2019)
    \/ \E u \in Ids, v \in Ids \cup {IdZ} : MutateAddEdge(u, v, P2Y)
    \/ \E n \in Ids : MutateCreation(n, Y2019)
    \/ \E e \in Ids \X Ids : MutateTimespan(e, P2Y)

SpecAlias == Init /\ [][NextAlias]_vars

\* the graph ingested from the two records u -> v and v -> u
MutualGraph(u, v) ==
    ProcessRow(ProcessRow(EmptyGraph, <<u, v, Y2020, P1Y>>), <<v, u, Y2021, P1Y>>)

\* process_citations has returned a graph over the identifiers searched with
\* wildcards
InitQuery ==
    \E u \in WildIds, v \in WildIds :
        /\ data = MutualGraph(u, v)
        /\ log = <<>>
        /\ phase = "query"
        /\ result = NoResult
        /\ last = NoCall

\* wildcard searches of data by identifier
NextQuery ==
    \E q \in WildQueries, f \in {"citing", "cited"} : Search("data", q, f)

SpecQuery == InitQuery /\ [][NextQuery]_vars

\* the largest number of years, of months and of days in a descriptor
MaxYears == 1

MaxMonths == 2

MaxDays == 2

\* the days a reference date may be on
RefDays ==
    {[y |-> y, m |-> m, d |-> d] :
        y \in {2019, 2020, 2021}, m \in {1, 2, 3, 12}, d \in {1, 2, 28, 29, 30, 31}}

\* the reference dates, in the three precisions
RefDates ==
    LET days == {DateStr(dt) : dt \in {x \in RefDays : x.d <= DaysInMonth(x.y, x.m)}}
    IN  days \cup {Slice(s, 0, 7) : s \in days} \cup {Slice(s, 0, 4) : s \in days}

\* the descriptor of the given sign with its first parts components
Descriptor(sign, years, months, days, parts) ==
    sign \o <<"P">> \o IntStr(years) \o <<"Y">>
         \o (IF parts >= 2 THEN IntStr(months) \o <<"M">> ELSE <<>>)
         \o (IF parts >= 3 THEN IntStr(days) \o <<"D">> ELSE <<>>)

\* the descriptors: years, years and months, or years, months and days, with
\* either sign
Descriptors ==
    {Descriptor(sign, c[1], c[2], c[3], c[4]) :
        sign \in {<<>>, <<"-">>},
        c \in {x \in (0..MaxYears) \X (0..MaxMonths) \X (0..MaxDays) \X (1..3) :
                  (x[4] < 3 => x[3] = 0) /\ (x[4] < 2 => x[2] = 0)}}

\* the descriptor of the opposite direction
Inverted(timespan) == IF timespan[1] = "-" THEN Tail(timespan) ELSE <<"-">> \o timespan

\* a reference date and a descriptor are given
InitDate ==
    \E citing_date \in RefDates, timespan \in Descriptors :
        /\ data = EmptyGraph
        /\ log = <<>>
        /\ phase = "dates"
        /\ result = NoResult
        /\ last = [op |-> "input", src |-> EmptyGraph, arg |-> <<citing_date, timespan>>,
                   out |-> <<>>]

\* find_cited_date(citing_date, timespan)
ResolveCited ==
    /\ phase = "dates"
    /\ IF CitedDateRaises(last.arg[1], last.arg[2])
       THEN phase' = "fault" /\ last' = [last EXCEPT !.op = "resolve"]
       ELSE /\ phase' = "derived"
            /\ last' = [last EXCEPT !.op = "resolve",
                                    !.out = <<find_cited_date(last.arg[1], last.arg[2])>>]
    /\ UNCHANGED <<data, log, result>>

\* find_cited_date on the derived date and the descriptor of the opposite
\* direction
ResolveInverted ==
    /\ phase = "derived"
    /\ IF CitedDateRaises(last.out[1], Inverted(last.arg[2]))
       THEN phase' = "fault" /\ last' = [last EXCEPT !.op = "invert"]
       ELSE /\ phase' = "back"
            /\ last' = [last EXCEPT !.op = "invert",
                                    !.out = Append(@, find_cited_date(last.out[1],
                                                                      Inverted(last.arg[2])))]
    /\ UNCHANGED <<data, log, result>>

NextDate == ResolveCited \/ ResolveInverted

SpecDate == InitDate /\ [][NextDate]_vars

(***************************************************************************)
(* Properties of the analytics and of ingestion, checked under Spec        *)
(***************************************************************************)

\* whether every node of g has a creation value
AllNodesDated(g) == \A n \in g.nodes : n \in DOMAIN g.creation

\* the edges of g that end in one of the documents
EdgesInto(g, docs) == {e \in g.edges : e[2] \in docs}

\* the creation year of n as a number
YearOf(g, n) == ParseInt(SubSeq(g.creation[n], 1, 4))

\* C4: on a graph whose nodes all have a creation value,
\* do_compute_impact_factor returns; identifiers absent from the graph count
\* for nothing, the numerator is the number of citation edges into the
\* present documents of the set whose citing document was created in the
\* year, the denominator is the number of present documents of the set
\* created in year-1 or year-2, and the result is None exactly when the
\* denominator is zero, the quotient of the two otherwise.
ImpactFactorIsPooledQuotient ==
    (last.op = "impact" /\ AllNodesDated(last.src)) =>
        LET g           == last.src
            year        == last.arg[2]
            present     == last.arg[1] \cap g.nodes
            numerator   == Cardinality({e \in EdgesInto(g, present) : YearOf(g, e[1]) = year})
            denominator == Cardinality({d \in present : YearOf(g, d) \in {year - 1, year - 2}})
            out         == last.out[2]
        IN  /\ last.out[1] = "return"
            /\ out.none <=> denominator = 0
            /\ ~out.none => out.num = numerator /\ out.den = denominator

\* C4 happens: a quotient with citations counted, for a set with an absent identifier
ImpactQuotientReturned ==
    /\ last.op = "impact" /\ last.out[1] = "return"
    /\ ~last.out[2].none /\ last.out[2].num >= 1
    /\ last.arg[1] \ last.src.nodes # {}

\* whether the first four characters of the creation of n, read as a year,
\* lie between the two bounds read as years
YearWithin(g, n, start, end) ==
    ParseInt(start) <= YearOf(g, n) /\ YearOf(g, n) <= ParseInt(end)

\* C5: do_get_citation_network returns the empty graph if start > end or a
\* bound is not 4 characters long; otherwise, on a graph whose nodes all have
\* a creation value, it returns a graph whose edges are exactly the source
\* edges whose two endpoints both have a creation year within [start, end],
\* so for start = end only edges between documents of exactly that year.
TimeWindowSelectsEdges ==
    last.op = "network" =>
        LET g     == last.src
            start == last.arg[1]
            end   == last.arg[2]
        IN  IF Len(start) # 4 \/ Len(end) # 4 \/ ParseInt(start) > ParseInt(end)
            THEN result.kind = "graph" /\ result.g.nodes = {} /\ result.g.edges = {}
            ELSE AllNodesDated(g) =>
                 /\ result.kind = "graph"
                 /\ result.g.edges =
                        {e \in g.edges : YearWithin(g, e[1], start, end)
                                            /\ YearWithin(g, e[2], start, end)}
                 /\ start = end =>
                        \A e \in result.g.edges :
                            /\ SubSeq(g.creation[e[1]], 1, 4) = start
                            /\ SubSeq(g.creation[e[2]], 1, 4) = start

\* C5 happens: a window of one year keeps some edges of the source and drops others
TimeWindowOfOneYear ==
    /\ last.op = "network" /\ result.kind = "graph"
    /\ last.arg[1] = last.arg[2]
    /\ result.g.edges # {}
    /\ result.g.edges # last.src.edges

\* the documents that cite both a and b in g, read off the edges
CitingBoth(g, a, b) == {e[1] : e \in {x \in g.edges : x[2] = a /\ <<x[1], b>> \in g.edges}}

\* the documents both a and b cite in g, read off the edges
CitedByBoth(g, a, b) == {e[2] : e \in {x \in g.edges : x[1] = a /\ <<b, x[2]>> \in g.edges}}

\* C6: the co-citation count and the bibliographic coupling count of (a, b)
\* equal the counts of (b, a); they are the sizes of the intersections of the
\* predecessor sets and of the successor sets, and 0 when a or b is not in the
\* graph.
CountsAreSymmetric ==
    /\ last.op = "cocitation" =>
           LET g == last.src
               a == last.arg[1]
               b == last.arg[2]
           IN  /\ last.out[2] = do_get_co_citations(g, b, a)
               /\ last.out[2] = IF a \in g.nodes /\ b \in g.nodes
                                THEN Cardinality(CitingBoth(g, a, b)) ELSE 0
    /\ last.op = "coupling" =>
           LET g == last.src
               a == last.arg[1]
               b == last.arg[2]
           IN  /\ last.out[2] = do_get_bibliographic_coupling(g, b, a)
               /\ last.out[2] = IF a \in g.nodes /\ b \in g.nodes
                                THEN Cardinality(CitedByBoth(g, a, b)) ELSE 0

\* C6 happens: two different documents are cited together
CoCitedPairCounted ==
    /\ last.op = "cocitation"
    /\ last.arg[1] # last.arg[2]
    /\ last.out[2] >= 1

\* the positions in the log of the 4-field records that mention n
Mentions(n) == {i \in 1..Len(log) : Len(log[i]) = 4 /\ n \in {log[i][1], log[i][2]}}

\* the first record that mentions n
FirstMention(n) == log[CHOOSE i \in Mentions(n) : \A j \in Mentions(n) : i <= j]

\* the positions in the log of the 4-field records of the pair e
Citations(e) == {i \in 1..Len(log) : Len(log[i]) = 4 /\ <<log[i][1], log[i][2]>> = e}

\* the last record of the pair e
LastCitation(e) == log[CHOOSE i \in Citations(e) : \A j \in Citations(e) : j <= i]

\* C10: while the records are read, the creation of every node is the value
\* the first record mentioning it gave it (the record's creation date for a
\* citing document, the derived date for a cited one), whatever later records
\* state, and the timespan of every edge is the descriptor of the last record
\* of its pair.
CreationIsWriteOnce ==
    phase = "rows" =>
        /\ data.nodes = {n \in Ids : Mentions(n) # {}}
        /\ \A n \in data.nodes :
               data.creation[n] = IF FirstMention(n)[1] = n THEN FirstMention(n)[3]
                                  ELSE find_cited_date(FirstMention(n)[3], FirstMention(n)[4])
        /\ data.edges = {e \in Ids \X Ids : Citations(e) # {}}
        /\ \A e \in data.edges : data.timespan[e] = LastCitation(e)[4]

\* C10 happens: a second record of the same pair states another creation date
\* for the citing document and another descriptor
PairIngestedAgain ==
    /\ phase = "rows" /\ Len(log) = 2
    /\ Len(log[1]) = 4 /\ Len(log[2]) = 4
    /\ log[1][1] = log[2][1] /\ log[1][2] = log[2][2]
    /\ log[1][3] # log[2][3] /\ log[1][4] # log[2][4]
    /\ data.creation[log[2][1]] = log[1][3]
    /\ data.timespan[<<log[2][1], log[2][2]>>] = log[2][4]

(***************************************************************************)
(* Properties of the graphs the operations return, checked under           *)
(* SpecPipeline                                                            *)
(***************************************************************************)

\* C2: in the graph built by ingestion and in every graph returned by a
\* time-window extraction, a merge, a search or a filter, every node, so every
\* endpoint of an edge, has a creation value.
EveryNodeHasCreation ==
    /\ AllNodesDated(data)
    /\ IsGraph(result) => AllNodesDated(Value(result))

\* C3: do_search and do_filter_by_value, given a graph obtained by ingestion
\* and any sequence of time windows, merges, searches and filters, any query
\* and a field among citing, cited, creation and timespan, return a graph and
\* do not raise.
QueriesNeverRaise ==
    (last.op \in {"search", "filter"}
        /\ last.arg[2] \in {"citing", "cited", "creation", "timespan"})
    => result.kind # "raise"

(***************************************************************************)
(* Properties of the comparison filter, checked under SpecSelect           *)
(***************************************************************************)

\* the descriptors that, case-folded, are p1y
SpelledP1Y == {<<p, "1", y>> : p \in {"P", "p"}, y \in {"Y", "y"}}

\* the edges of g whose descriptor, case-folded, is p1y
EdgesOfP1Y(g) == {e \in g.edges : g.timespan[e] \in SpelledP1Y}

\* C8 as stated: the filter query "timespan == P1Y" on field timespan returns
\* exactly the edges whose descriptor, case-folded, equals p1y.
FilterTimespanEqualsP1Y ==
    (last.op = "filter" /\ last.arg = <<QueryTimespanP1Y, "timespan">>
        /\ result.kind = "view")
    => last.out[1].edges = EdgesOfP1Y(last.src)

\* C8, amended: on a graph built by ingestion from descriptors of letters,
\* digits and "-", or selected from one by searches and filters, the filter
\* query "== P1Y" on field timespan returns exactly the edges whose
\* descriptor, case-folded, equals p1y, compared as strings; the query
\* "timespan == P1Y" returns no edge.
FilterEqualsP1Y ==
    /\ (last.op = "filter" /\ last.arg = <<QueryP1Y, "timespan">>) =>
           /\ result.kind = "view"
           /\ last.out[1].edges = EdgesOfP1Y(last.src)
    /\ (last.op = "filter" /\ last.arg = <<QueryTimespanP1Y, "timespan">>) =>
           /\ result.kind = "view"
           /\ last.out[1].edges = {}

\* C8 happens: "== P1Y" keeps the edges of P1Y and drops another
FilterKeepsP1YOnly ==
    /\ last.op = "filter" /\ last.arg = <<QueryP1Y, "timespan">>
    /\ result.kind = "view"
    /\ last.out[1].edges # {}
    /\ last.out[1].edges # last.src.edges

(***************************************************************************)
(* Properties of the wildcard search, checked under SpecQuery              *)
(***************************************************************************)

\* anchored glob matching: "*" stands for any run of characters, every other
\* character for itself
RECURSIVE GlobMatch(_, _)
GlobMatch(pattern, value) ==
    IF pattern = <<>> THEN value = <<>>
    ELSE IF Head(pattern) = "*"
    THEN \E k \in 0..Len(value) : GlobMatch(Tail(pattern), SubSeq(value, k + 1, Len(value)))
    ELSE /\ value # <<>>
         /\ Head(value) = Head(pattern)
         /\ GlobMatch(Tail(pattern), Tail(value))

WordAnd == <<"a", "n", "d">>

WordOr == <<"o", "r">>

WordNot == <<"n", "o", "t">>

\* the runs of words between the occurrences of the word sep
RECURSIVE SplitWords(_, _)
SplitWords(words, sep) ==
    IF \A i \in 1..Len(words) : words[i] # sep THEN <<words>>
    ELSE LET k == CHOOSE i \in 1..Len(words) :
                      words[i] = sep /\ \A j \in 1..(i - 1) : words[j] # sep
         IN  <<SubSeq(words, 1, k - 1)>> \o SplitWords(SubSeq(words, k + 1, Len(words)), sep)

\* the query as a disjunction of conjunctions of factors
Disjuncts(query) ==
    LET groups == SplitWords(SplitBlank(query), WordOr)
    IN  [i \in 1..Len(groups) |-> SplitWords(groups[i], WordAnd)]

\* a factor is one search term after any number of "not"
IsFactor(f) ==
    /\ Len(f) >= 1
    /\ \A i \in 1..(Len(f) - 1) : f[i] = WordNot
    /\ f[Len(f)] \notin {WordAnd, WordOr, WordNot}

\* the query is a boolean expression over search terms
WellFormed(query) ==
    \A i \in 1..Len(Disjuncts(query)) :
        \A j \in 1..Len(Disjuncts(query)[i]) : IsFactor(Disjuncts(query)[i][j])

\* whether the value satisfies the factor
FactorSat(f, value) ==
    IF (Len(f) - 1) % 2 = 0
    THEN GlobMatch(Lower(f[Len(f)]), value)
    ELSE ~GlobMatch(Lower(f[Len(f)]), value)

\* whether the value satisfies the query, "not" binding tighter than "and",
\* "and" tighter than "or"
GlobSat(query, value) ==
    \E i \in 1..Len(Disjuncts(query)) :
        \A j \in 1..Len(Disjuncts(query)[i]) : FactorSat(Disjuncts(query)[i][j], value)

\* the value of the field for the edge e, case-folded
FoldedField(e, field) == IF field = "citing" THEN Lower(e[1]) ELSE Lower(e[2])

\* the examples: a query, values it matches and values it does not match
GlobExamples ==
    { [query |-> <<"a", "b", "*">>,
       yes   |-> {<<"a", "b">>, <<"a", "b", "c">>, <<"a", "b", "x", "y", "z">>},
       no    |-> {<<"x", "a", "b">>}],
      [query |-> <<"a", "*", "c">>,
       yes   |-> {<<"a", "c">>, <<"a", "b", "c">>, <<"a", "b", "b", "b", "c">>},
       no    |-> {<<"a", "b", "c", "d">>}],
      [query |-> <<"a", "b", "*", " ", "a", "n", "d", " ", "n", "o", "t", " ", "c", "d", "*">>,
       yes   |-> {<<"a", "b", "x">>},
       no    |-> {<<"c", "d", "x">>, <<"x", "y", "z">>}] }

\* C7: do_search on an identifier field returns exactly the edges whose
\* case-folded value satisfies the query, each term an anchored glob over the
\* whole value in which "*" matches any run of characters and every other
\* character is literal, with not over and over or; "ab*" matches ab, abc,
\* abxyz and not xab, "a*c" matches ac, abc, abbbc and not abcd, "ab* and not
\* cd*" matches abx and neither cdx nor xyz.
SearchIsGlobMatch ==
    (last.op = "search" /\ result.kind = "view" /\ WellFormed(last.arg[1])) =>
        /\ last.out[1].edges =
               {e \in last.src.edges : GlobSat(last.arg[1], FoldedField(e, last.arg[2]))}
        /\ \A ex \in GlobExamples :
               last.arg[1] = ex.query =>
                   \A e \in last.src.edges :
                       /\ FoldedField(e, last.arg[2]) \in ex.yes => e \in last.out[1].edges
                       /\ FoldedField(e, last.arg[2]) \in ex.no => e \notin last.out[1].edges

(***************************************************************************)
(* Properties of the date resolver, checked under SpecDate                 *)
(***************************************************************************)

\* the numbers of years, months and days the descriptor states, zero for a
\* component it leaves out
Stated(timespan) ==
    LET body  == IF timespan[1] = "-" THEN Tail(timespan) ELSE timespan
        upto(c) == IF \E i \in 1..Len(body) : body[i] = c
                   THEN CHOOSE i \in 1..Len(body) : body[i] = c ELSE 0
        iy    == upto("Y")
        im    == upto("M")
        id    == upto("D")
    IN  [years  |-> ParseInt(SubSeq(body, 2, iy - 1)),
         months |-> IF im = 0 THEN 0 ELSE ParseInt(SubSeq(body, iy + 1, im - 1)),
         days   |-> IF id = 0 THEN 0 ELSE ParseInt(SubSeq(body, im + 1, id - 1)),
         back   |-> timespan[1] # "-"]

\* the date of a reference string, month and day being 1 when it has none
DateOf(s) ==
    [y |-> ParseInt(SubSeq(s, 1, 4)),
     m |-> IF Len(s) >= 7 THEN ParseInt(SubSeq(s, 6, 7)) ELSE 1,
     d |-> IF Len(s) = 10 THEN ParseInt(SubSeq(s, 9, 10)) ELSE 1]

\* moving dt by the years and then by the months never lands on a month
\* shorter than the day of dt
Unclamped(dt, years, months) ==
    LET total == (dt.y + years) * 12 + (dt.m - 1) + months
    IN  /\ dt.d <= DaysInMonth(dt.y + years, dt.m)
        /\ dt.d <= DaysInMonth(total \div 12, (total % 12) + 1)

\* neither resolution of the round trip cut a day to the length of a month
NoClamping ==
    LET c == Stated(last.arg[2])
        k == IF c.back THEN 0 - 1 ELSE 1
    IN  /\ Unclamped(DateOf(last.arg[1]), k * c.years, k * c.months)
        /\ Unclamped(DateOf(last.out[1]), (0 - k) * c.years, (0 - k) * c.months)

\* C9 as stated: when no resolution involves clamping, resolving a descriptor
\* from a reference date and then the inverted descriptor from the derived
\* date gives the reference date back.
RoundTripWithoutClamping ==
    (phase = "back" /\ NoClamping) => last.out[2] = last.arg[1]

\* the descriptor states nothing finer than the precision of the reference
\* date, and its days do not come with years or months
WithinPrecision ==
    LET c == Stated(last.arg[2])
    IN  /\ Len(last.arg[1]) = 4 => c.months = 0 /\ c.days = 0
        /\ Len(last.arg[1]) = 7 => c.days = 0
        /\ c.days = 0 \/ (c.years = 0 /\ c.months = 0)

\* C9, amended: the round trip gives the reference date back when no
\* resolution involves clamping, every component of the descriptor finer
\* than the precision of the reference date is zero, and the days are zero or
\* both the years and the months are.
RoundTripWithinPrecision ==
    (phase = "back" /\ NoClamping /\ WithinPrecision) => last.out[2] = last.arg[1]

\* C9 happens: a round trip over a year and some months from a full date
RoundTripOverMonths ==
    /\ phase = "back" /\ NoClamping /\ WithinPrecision
    /\ Len(last.arg[1]) = 10
    /\ Stated(last.arg[2]).years >= 1 /\ Stated(last.arg[2]).months >= 1
    /\ last.out[1] # last.arg[1]
    /\ last.out[2] = last.arg[1]

(***************************************************************************)
(* Properties of the returned selections, checked under SpecAlias          *)
(***************************************************************************)

\* C1: the graph do_search or do_filter_by_value returned keeps the nodes,
\* the edges and the attributes it had when it was returned, whatever is
\* changed in the source graph afterwards.
ReturnedGraphIsIndependent ==
    (last.op \in {"search", "filter"} /\ result.kind = "view")
    => Value(result) = last.out[1]

====
